---- MODULE Spec2Model ----
(***************************************************************************)
(* Model of the LINE Bot MCP server over SSE (src/src/index.ts): the two   *)
(* process-wide tables `transports` and `completionCallbacks`, the         *)
(* GET /sse and POST /messages handlers, the "close" event of a channel    *)
(* and the three tool handlers, each cut at its `await` points.            *)
(***************************************************************************)
EXTENDS Integers, Sequences, FiniteSets, TLC

\* ---- bounds ----
MaxSessions == 2
MaxRequests == 2

\* ---- identifiers ----
\* Session identifiers the transport issues, in order of creation.
Sessions == 1..MaxSessions
\* An identifier no transport ever issued (a POST may carry any string).
UnknownSession == 0
SessionIds == Sessions \cup {UnknownSession}
\* POST /messages requests, numbered in order of arrival.
Requests == 1..MaxRequests
\* An absent entry of completionCallbacks.
NoCallback == 0

\* What the body of a POST invokes.  The handlers of the three registered
\* tools (push_text_message, push_flex_message, get_profile) take the same
\* steps around their one remote call, so a valid invocation of any of them
\* is ValidInvocation.  InvalidInvocation names no registered tool or fails
\* the tool's schema: the MCP server answers it without running a handler.
ValidInvocation == "tool"
InvalidInvocation == "invalid"
Invocations == {ValidInvocation, InvalidInvocation}

VARIABLES
  transports,           \* set of sessionIds with an entry in `transports`
  completionCallbacks,  \* sessionId -> request whose `resolve` is stored, or NoCallback
  nextSessionId,        \* next identifier a new SSEServerTransport gets
  nextRequest,          \* next POST /messages request to arrive
  reqSession,           \* request -> req.query.sessionId
  reqTool,              \* request -> what the body invokes
  pc,                   \* request -> position of the POST handler
  toolExecutionComplete,\* request -> state of its promise: "pending" | "resolved"
  signalled,            \* request -> number of calls made to its `resolve`
  handler,              \* request -> position of the tool handler it started
  toolResult,           \* request -> what the tool handler returned
  channel,              \* sessionId -> sequence of requests whose result was written
  toolRun               \* one run of a tool handler seen from its data: arguments, remote call, result

vars == <<transports, completionCallbacks, nextSessionId, nextRequest,
          reqSession, reqTool, pc, toolExecutionComplete, signalled,
          handler, toolResult, channel, toolRun>>

\* Positions of the POST /messages handler.
PcValues == {"none", "handlePostMessage", "awaitComplete",
             "completed", "failed400", "failed500"}
\* Positions of a tool handler.
HandlerValues == {"none", "remoteCall", "returned", "sent", "dropped"}

TypeOK ==
  /\ transports \subseteq Sessions
  /\ completionCallbacks \in [SessionIds -> Requests \cup {NoCallback}]
  /\ nextSessionId \in 1..(MaxSessions + 1)
  /\ nextRequest \in 1..(MaxRequests + 1)
  /\ reqSession \in [Requests -> SessionIds]
  /\ reqTool \in [Requests -> Invocations]
  /\ pc \in [Requests -> PcValues]
  /\ toolExecutionComplete \in [Requests -> {"pending", "resolved"}]
  /\ signalled \in [Requests -> 0..MaxRequests]
  /\ handler \in [Requests -> HandlerValues]
  /\ toolResult \in [Requests -> {"none", "success", "isError"}]
  /\ channel \in [SessionIds -> Seq(Requests)]

CoordInit ==
  /\ transports = {}
  /\ completionCallbacks = [s \in SessionIds |-> NoCallback]
  /\ nextSessionId = 1
  /\ nextRequest = 1
  /\ reqSession = [r \in Requests |-> UnknownSession]
  /\ reqTool = [r \in Requests |-> InvalidInvocation]
  /\ pc = [r \in Requests |-> "none"]
  /\ toolExecutionComplete = [r \in Requests |-> "pending"]
  /\ signalled = [r \in Requests |-> 0]
  /\ handler = [r \in Requests |-> "none"]
  /\ toolResult = [r \in Requests |-> "none"]
  /\ channel = [s \in SessionIds |-> <<>>]

\* No tool run is followed by its data while the coordination is explored.
NoRun == [at |-> "none"]

Init == CoordInit /\ toolRun = NoRun

\* ---- GET /sse ----
\* A new transport gets a fresh sessionId and is stored; the close listener
\* is CloseSse.  server.connect's failure branch touches neither table.
OpenSse ==
  /\ nextSessionId <= MaxSessions
  /\ transports' = transports \cup {nextSessionId}
  /\ nextSessionId' = nextSessionId + 1
  /\ UNCHANGED <<completionCallbacks, nextRequest, reqSession, reqTool, pc,
                 toolExecutionComplete, signalled, handler, toolResult, channel>>
  /\ UNCHANGED toolRun

\* CloseSse without `delete completionCallbacks[transport.sessionId]`.
CloseSse_KeepsCallback(s) ==
  /\ s \in transports
  /\ transports' = transports \ {s}
  /\ UNCHANGED <<completionCallbacks, nextSessionId, nextRequest, reqSession,
                 reqTool, pc, toolExecutionComplete, signalled, handler,
                 toolResult, channel>>
  /\ UNCHANGED toolRun

\* res.on("close"): both entries of the session are deleted; the stored
\* resolve function is dropped without being called.
CloseSse(s) ==
  /\ s \in transports
  /\ transports' = transports \ {s}
  /\ completionCallbacks' = [completionCallbacks EXCEPT ![s] = NoCallback]
  /\ UNCHANGED <<nextSessionId, nextRequest, reqSession, reqTool, pc,
                 toolExecutionComplete, signalled, handler, toolResult, channel>>
  /\ UNCHANGED toolRun

\* ---- POST /messages ----
\* PostMessages without the registration: the promise is created but its
\* resolve is not stored before the hand-off to the transport.
PostMessages_NoRegistration(sid, inv) ==
  LET r == nextRequest IN
  /\ nextRequest <= MaxRequests
  /\ nextRequest' = nextRequest + 1
  /\ reqSession' = [reqSession EXCEPT ![r] = sid]
  /\ reqTool' = [reqTool EXCEPT ![r] = inv]
  /\ pc' = [pc EXCEPT ![r] =
              IF sid \in transports THEN "handlePostMessage" ELSE "failed400"]
  /\ UNCHANGED <<transports, completionCallbacks, nextSessionId,
                 toolExecutionComplete, signalled, handler, toolResult, channel>>
  /\ UNCHANGED toolRun

\* PostMessages without the transport lookup: every POST is registered and
\* handed to handlePostMessage, whatever its sessionId.
PostMessages_NoLookup(sid, inv) ==
  LET r == nextRequest IN
  /\ nextRequest <= MaxRequests
  /\ nextRequest' = nextRequest + 1
  /\ reqSession' = [reqSession EXCEPT ![r] = sid]
  /\ reqTool' = [reqTool EXCEPT ![r] = inv]
  /\ completionCallbacks' = [completionCallbacks EXCEPT ![sid] = r]
  /\ pc' = [pc EXCEPT ![r] = "handlePostMessage"]
  /\ UNCHANGED <<transports, nextSessionId, toolExecutionComplete, signalled,
                 handler, toolResult, channel>>
  /\ UNCHANGED toolRun

\* PostMessages with the registration moved above the transport lookup: the
\* resolve is stored even when the sessionId has no transport.
PostMessages_RegisterBeforeLookup(sid, inv) ==
  LET r == nextRequest IN
  /\ nextRequest <= MaxRequests
  /\ nextRequest' = nextRequest + 1
  /\ reqSession' = [reqSession EXCEPT ![r] = sid]
  /\ reqTool' = [reqTool EXCEPT ![r] = inv]
  /\ completionCallbacks' = [completionCallbacks EXCEPT ![sid] = r]
  /\ pc' = [pc EXCEPT ![r] =
              IF sid \in transports THEN "handlePostMessage" ELSE "failed400"]
  /\ UNCHANGED <<transports, nextSessionId, toolExecutionComplete, signalled,
                 handler, toolResult, channel>>
  /\ UNCHANGED toolRun

\* Synchronous part of the handler, up to its first await: look the
\* transport up; without one answer 400; with one, store the resolve of a new
\* promise under the sessionId (overwriting what is there) and call
\* transport.handlePostMessage.
PostMessages(sid, inv) ==
  LET r == nextRequest IN
  /\ nextRequest <= MaxRequests
  /\ nextRequest' = nextRequest + 1
  /\ reqSession' = [reqSession EXCEPT ![r] = sid]
  /\ reqTool' = [reqTool EXCEPT ![r] = inv]
  /\ IF sid \in transports
       THEN /\ completionCallbacks' = [completionCallbacks EXCEPT ![sid] = r]
            /\ pc' = [pc EXCEPT ![r] = "handlePostMessage"]
       ELSE /\ pc' = [pc EXCEPT ![r] = "failed400"]
            /\ UNCHANGED completionCallbacks
  /\ UNCHANGED <<transports, nextSessionId, toolExecutionComplete, signalled,
                 handler, toolResult, channel>>
  /\ UNCHANGED toolRun

\* `await transport.handlePostMessage(...)` returns: the message was handed
\* to the MCP server, which starts the tool handler for a valid invocation
\* and none otherwise; the POST handler goes on to await its promise.
HandlePostMessageReturns(r) ==
  /\ pc[r] = "handlePostMessage"
  /\ pc' = [pc EXCEPT ![r] = "awaitComplete"]
  /\ handler' = [handler EXCEPT ![r] =
                   IF reqTool[r] = ValidInvocation THEN "remoteCall" ELSE "none"]
  /\ UNCHANGED <<transports, completionCallbacks, nextSessionId, nextRequest,
                 reqSession, reqTool, toolExecutionComplete, signalled,
                 toolResult, channel>>
  /\ UNCHANGED toolRun

\* HandlePostMessageThrows without the "Clean up" line of the catch block.
HandlePostMessageThrows_NoCleanup(r) ==
  /\ pc[r] = "handlePostMessage"
  /\ pc' = [pc EXCEPT ![r] = "failed500"]
  /\ UNCHANGED <<transports, completionCallbacks, nextSessionId, nextRequest,
                 reqSession, reqTool, toolExecutionComplete, signalled,
                 handler, toolResult, channel>>
  /\ UNCHANGED toolRun

\* `await transport.handlePostMessage(...)` throws: the catch block deletes
\* the entry stored under the sessionId and answers 500.
HandlePostMessageThrows(r) ==
  /\ pc[r] = "handlePostMessage"
  /\ pc' = [pc EXCEPT ![r] = "failed500"]
  /\ completionCallbacks' =
       [completionCallbacks EXCEPT ![reqSession[r]] = NoCallback]
  /\ UNCHANGED <<transports, nextSessionId, nextRequest, reqSession, reqTool,
                 toolExecutionComplete, signalled, handler, toolResult, channel>>
  /\ UNCHANGED toolRun

\* `await toolExecutionComplete` resumes once the promise is resolved; the
\* handler flushes and ends.
ToolExecutionCompleted(r) ==
  /\ pc[r] = "awaitComplete"
  /\ toolExecutionComplete[r] = "resolved"
  /\ pc' = [pc EXCEPT ![r] = "completed"]
  /\ UNCHANGED <<transports, completionCallbacks, nextSessionId, nextRequest,
                 reqSession, reqTool, toolExecutionComplete, signalled,
                 handler, toolResult, channel>>
  /\ UNCHANGED toolRun

\* ---- tool handlers ----
\* SignalCompletion with one callback slot shared by all sessions: every
\* stored resolve is called, whatever session it was stored under.
SignalCompletion_AllSessions(sid) ==
  LET qs == {completionCallbacks[s] : s \in SessionIds} \ {NoCallback} IN
  /\ toolExecutionComplete' =
       [r \in Requests |-> IF r \in qs THEN "resolved" ELSE toolExecutionComplete[r]]
  /\ signalled' = [r \in Requests |-> IF r \in qs THEN signalled[r] + 1 ELSE signalled[r]]

\* `if (extra?.sessionId && completionCallbacks[extra.sessionId])
\*    completionCallbacks[extra.sessionId]()`: the resolve stored under the
\* session is called when there is one; the entry is left in the table.
SignalCompletion(sid) ==
  LET q == completionCallbacks[sid] IN
  IF q # NoCallback
    THEN /\ toolExecutionComplete' = [toolExecutionComplete EXCEPT ![q] = "resolved"]
         /\ signalled' = [signalled EXCEPT ![q] = @ + 1]
    ELSE UNCHANGED <<toolExecutionComplete, signalled>>

\* try branch: the remote call returned a response; completion is signalled
\* and the success payload is returned.
RemoteCallSucceeds(r) ==
  /\ handler[r] = "remoteCall"
  /\ SignalCompletion(reqSession[r])
  /\ toolResult' = [toolResult EXCEPT ![r] = "success"]
  /\ handler' = [handler EXCEPT ![r] = "returned"]
  /\ UNCHANGED <<transports, completionCallbacks, nextSessionId, nextRequest,
                 reqSession, reqTool, pc, channel>>
  /\ UNCHANGED toolRun

\* RemoteCallFails without the "Signal completion even on error" block.
RemoteCallFails_NoSignal(r) ==
  /\ handler[r] = "remoteCall"
  /\ toolResult' = [toolResult EXCEPT ![r] = "isError"]
  /\ handler' = [handler EXCEPT ![r] = "returned"]
  /\ UNCHANGED <<transports, completionCallbacks, nextSessionId, nextRequest,
                 reqSession, reqTool, pc, toolExecutionComplete, signalled,
                 channel>>
  /\ UNCHANGED toolRun

\* catch branch: the remote call threw; completion is signalled and the
\* isError payload is returned.
RemoteCallFails(r) ==
  /\ handler[r] = "remoteCall"
  /\ SignalCompletion(reqSession[r])
  /\ toolResult' = [toolResult EXCEPT ![r] = "isError"]
  /\ handler' = [handler EXCEPT ![r] = "returned"]
  /\ UNCHANGED <<transports, completionCallbacks, nextSessionId, nextRequest,
                 reqSession, reqTool, pc, channel>>
  /\ UNCHANGED toolRun

\* The value the handler returned is written by the MCP server onto the
\* session's channel; on a closed channel it is lost.
SendResult(r) ==
  /\ handler[r] = "returned"
  /\ IF reqSession[r] \in transports
       THEN /\ channel' = [channel EXCEPT ![reqSession[r]] = Append(@, r)]
            /\ handler' = [handler EXCEPT ![r] = "sent"]
       ELSE /\ handler' = [handler EXCEPT ![r] = "dropped"]
            /\ UNCHANGED channel
  /\ UNCHANGED <<transports, completionCallbacks, nextSessionId, nextRequest,
                 reqSession, reqTool, pc, toolExecutionComplete, signalled,
                 toolResult>>
  /\ UNCHANGED toolRun

\* ---- specification ----
\* Identifiers a client can put in the query: those issued so far, or one
\* that was never issued.
KnownIds == (1..(nextSessionId - 1)) \cup {UnknownSession}

\* Steps the event loop takes on its own once they are enabled.
ServerStep(r) ==
  \/ HandlePostMessageReturns(r)
  \/ ToolExecutionCompleted(r)
  \/ RemoteCallSucceeds(r)
  \/ RemoteCallFails(r)
  \/ SendResult(r)

Next ==
  \/ OpenSse
  \/ \E s \in Sessions : CloseSse(s)
  \/ \E sid \in KnownIds, inv \in Invocations : PostMessages(sid, inv)
  \/ \E r \in Requests : HandlePostMessageReturns(r)
  \/ \E r \in Requests : HandlePostMessageThrows(r)
  \/ \E r \in Requests : ToolExecutionCompleted(r)
  \/ \E r \in Requests : RemoteCallSucceeds(r)
  \/ \E r \in Requests : RemoteCallFails(r)
  \/ \E r \in Requests : SendResult(r)

Spec == Init /\ [][Next]_vars

\* The event loop runs every continuation that is ready and every remote call
\* returns; clients are free to open, post and close or not.
LiveSpec == Spec /\ \A r \in Requests : WF_vars(ServerStep(r))

\* ---- vocabulary of the properties ----
\* The POST handler of r is suspended at one of its awaits.
Suspended(r) == pc[r] \in {"handlePostMessage", "awaitComplete"}
\* The tool handler started by r has finished its remote call.
ToolFinished(r) == handler[r] \in {"returned", "sent", "dropped"}
\* The invocation of r is in flight: dispatched and its result not produced.
InFlight(r) == pc[r] = "handlePostMessage" \/ handler[r] = "remoteCall"
\* The result of r is on its session's channel.
InChannel(r) ==
  \E i \in 1..Len(channel[reqSession[r]]) : channel[reqSession[r]][i] = r

\* C1: a POST that carried a tool invocation passes `await
\* toolExecutionComplete` only after the tool handler it started has finished
\* its remote call.
C1_ReleasedOnlyAfterOwnTool ==
  \A r \in Requests :
    (reqTool[r] = ValidInvocation /\ pc[r] = "completed") => ToolFinished(r)

\* C2: a POST suspended on a session whose channel has closed is eventually
\* released (the close having removed the session from the table).
C2_CloseReleasesSuspended ==
  \A r \in Requests :
    (pc[r] = "awaitComplete" /\ reqSession[r] \notin transports)
      ~> (pc[r] # "awaitComplete")

\* C3: a POST arriving while the stored completion of a session is still
\* pending does not replace that completion.
C3_PendingNeverReplaced ==
  [][\A s \in Sessions :
       LET q == completionCallbacks[s] IN
       (/\ q # NoCallback
        /\ Suspended(q) /\ toolExecutionComplete[q] = "pending"
        /\ nextRequest' # nextRequest)
         => completionCallbacks'[s] = q]_vars

\* C4: once the tool handler of a valid invocation on an open session has
\* finished, it has produced one result and the completion signal of that
\* invocation has fired exactly once.
C4_ExactlyOneResultAndSignal ==
  \A r \in Requests :
    (ToolFinished(r) /\ reqSession[r] \in transports)
      => toolResult[r] # "none" /\ signalled[r] = 1

C6_InvalidNotRegistered ==
  \A r \in Requests :
    (reqTool[r] = InvalidInvocation /\ pc[r] # "none")
      => /\ completionCallbacks[reqSession[r]] # r
         /\ pc[r] # "awaitComplete"

\* C7: the completion signal of a request has fired only if the result of
\* its invocation is already on the session's channel.
C7_ResultWrittenBeforeSignal ==
  \A r \in Requests :
    toolExecutionComplete[r] = "resolved" => InChannel(r)

\* C8: a session with no invocation in flight has no entry in the
\* pending-completion table.
C8_EntryOnlyWhileInFlight ==
  \A s \in Sessions :
    (\A r \in Requests : reqSession[r] = s => ~InFlight(r))
      => completionCallbacks[s] = NoCallback

\* C9: every POST that registered a pending completion eventually leaves its
\* wait.
C9_NoRequestSuspendedForever ==
  \A r \in Requests : Suspended(r) ~> (pc[r] \in {"completed", "failed500"})

\* C10: when the remote call of the tool handler of r fails, the handler
\* returns an isError result, the session's channel is neither closed nor
\* removed, the POST is not on the 500 path and its promise is resolved, so
\* that it ends as a success.
C10_RemoteFailureIsToolLevel ==
  [][\A r \in Requests :
       (handler[r] = "remoteCall" /\ toolResult'[r] = "isError")
         => /\ handler'[r] = "returned"
            /\ transports' = transports
            /\ pc'[r] # "failed500"
            /\ toolExecutionComplete'[r] = "resolved"]_vars

\* A session identifier that was issued and whose channel has closed.
Closed(s) == s < nextSessionId /\ s \notin transports

\* C11: the close event deletes the session's entry of both tables in one
\* step, and closing is final: from then on the identifier is in neither
\* table and every POST arriving with it is answered 400, not dispatched.
C11_CloseIsAtomicAndFinal ==
  [][\A s \in Sessions :
       /\ (s \in transports /\ s \notin transports')
            => completionCallbacks'[s] = NoCallback
       /\ Closed(s)
            => /\ completionCallbacks[s] = NoCallback
               /\ s \notin transports' /\ completionCallbacks'[s] = NoCallback
               /\ \A r \in Requests :
                    (pc[r] = "none" /\ pc'[r] # "none" /\ reqSession'[r] = s)
                      => pc'[r] = "failed400"]_vars

\* C11 witness: a session closed while a request was registered on it, and a
\* later POST with its identifier was answered 400.
C11_Witness ==
  \E s \in Sessions, r, q \in Requests :
    /\ Closed(s)
    /\ r < q
    /\ reqSession[r] = s /\ pc[r] = "awaitComplete"
    /\ reqSession[q] = s /\ pc[q] = "failed400"

\* C12: a step changes the promise of a request, the table entries of a
\* session or the position of a POST only when it is a step of that same
\* session: a tool handler of the session returning, a POST carrying the
\* session's identifier, or the session's own close event.
C12_SessionsIndependent ==
  [][/\ \A r \in Requests :
          toolExecutionComplete'[r] # toolExecutionComplete[r]
            => \E q \in Requests :
                 /\ reqSession[q] = reqSession[r]
                 /\ handler[q] = "remoteCall" /\ handler'[q] = "returned"
     /\ \A s \in Sessions :
          (completionCallbacks'[s] # completionCallbacks[s]
             \/ (s \in transports) # (s \in transports'))
            => \/ s \notin transports /\ s \in transports'
               \/ s \in transports /\ s \notin transports'
                    /\ \A t \in Sessions \ {s} : (t \in transports) = (t \in transports')
               \/ \E q \in Requests : reqSession'[q] = s /\ pc'[q] # pc[q]]_vars

\* C12 witness: an invocation on one session was registered, executed and
\* released while a request on another session is still suspended, its
\* promise pending and its entry in place.
C12_Witness ==
  \E a, b \in Requests :
    /\ reqSession[a] # reqSession[b]
    /\ reqSession[a] \in transports /\ reqSession[b] \in transports
    /\ a < b
    /\ pc[a] = "awaitComplete" /\ toolExecutionComplete[a] = "pending"
    /\ completionCallbacks[reqSession[a]] = a
    /\ pc[b] = "completed" /\ handler[b] = "sent" /\ signalled[b] = 1

\* C13: when the hand-off to the transport throws, the POST ends with 500
\* and stays there, no entry of the completion table holds its resolve
\* afterwards, no tool handler was started for it, and the step leaves the
\* session table as it was.
C13_DispatchFailureEndsWith500 ==
  [][\A r \in Requests :
       /\ (pc[r] = "handlePostMessage" /\ pc'[r] \notin {"handlePostMessage", "awaitComplete"})
            => /\ pc'[r] = "failed500"
               /\ transports' = transports
               /\ handler'[r] = "none"
       /\ pc'[r] = "failed500"
            => \A s \in SessionIds : completionCallbacks'[s] # r
       /\ pc[r] = "failed500" => pc'[r] = "failed500"]_vars

\* C13 witness: a dispatch failed on a session that is still in the table.
C13_Witness ==
  \E r \in Requests :
    /\ pc[r] = "failed500"
    /\ reqSession[r] \in transports
    /\ completionCallbacks[reqSession[r]] = NoCallback

\* ---- the data of one tool call ----
\* Texts are sequences of characters; the alphabet has the two characters
\* JSON escapes inside a string.
MaxTextLen == 1
Alphabet == {"a", "\"", "\\"}
Texts == UNION {[1..n -> Alphabet] : n \in 0..MaxTextLen}

\* The tools registered with server.tool(...).
Tools == {"push_text_message", "push_flex_message", "get_profile"}

\* The optional userId argument: left out, or a string (the empty one too).
Absent == [present |-> FALSE, value |-> <<>>]
Given(t) == [present |-> TRUE, value |-> t]
UserIds == {Absent, Given(<<>>), Given(<<"U", "1">>)}
\* process.env.DESTINATION_USER_ID || ""
DestinationIds == {<<>>, <<"D">>}

\* Responses of the remote API: JSON objects, as the sequence of their
\* <<key, value>> members in insertion order, keys distinct.
KeyUserId == <<"u", "s", "e", "r", "I", "d">>
KeyDisplayName == <<"d", "i", "s", "p", "l", "a", "y", "N", "a", "m", "e">>
Keys == {KeyUserId, KeyDisplayName}
Responses ==
  {<<>>}
    \cup {<< <<k, v>> >> : k \in Keys, v \in Texts}
    \cup {o \in {<< <<k1, v1>>, <<k2, v2>> >> :
                    k1 \in Keys, k2 \in Keys, v1 \in Texts, v2 \in Texts} :
            o[1][1] # o[2][1]}

RECURSIVE JSONEscape(_)
\* The characters of a string as JSON.stringify writes them between quotes.
JSONEscape(t) ==
  IF t = <<>> THEN <<>>
  ELSE (IF t[1] \in {"\"", "\\"} THEN <<"\\", t[1]>> ELSE <<t[1]>>)
         \o JSONEscape(Tail(t))

JSONQuote(t) == <<"\"">> \o JSONEscape(t) \o <<"\"">>

RECURSIVE JSONMembers(_)
JSONMembers(obj) ==
  IF obj = <<>> THEN <<>>
  ELSE JSONQuote(obj[1][1]) \o <<":">> \o JSONQuote(obj[1][2])
         \o (IF Len(obj) > 1 THEN <<",">> ELSE <<>>)
         \o JSONMembers(Tail(obj))

\* JSON.stringify(response)
JSONStringify(obj) == <<"{">> \o JSONMembers(obj) \o <<"}">>

\* Target of the remote call: `userId ?? destinationId`.
Target_OrFallback(userId, destinationId) ==
  IF userId.present /\ userId.value # <<>> THEN userId.value ELSE destinationId

Target(userId, destinationId) ==
  IF userId.present THEN userId.value ELSE destinationId

\* The method of messagingApiClient each handler calls.
RemoteMethod(tool) ==
  IF tool = "get_profile" THEN "getProfile" ELSE "pushMessage"

\* Value returned by the try branch.  (isError is absent there; FALSE here.)
SuccessResult(response) ==
  [isError |-> FALSE,
   content |-> << [type |-> "text", text |-> JSONStringify(response)] >>]

ErrorPrefix == <<"E", "r", "r", "o", "r", ":", " ">>

\* Value returned by the catch branch: `Error: ${error.message}`.
ErrorResult(message) ==
  [isError |-> TRUE,
   content |-> << [type |-> "text", text |-> ErrorPrefix \o message] >>]

ToolInit ==
  /\ CoordInit
  /\ toolRun \in {[at |-> "start", tool |-> t, userId |-> u, destinationId |-> d] :
                    t \in Tools, u \in UserIds, d \in DestinationIds}

\* The handler computes the target and awaits the remote call.
ToolCallsRemote ==
  /\ toolRun.at = "start"
  /\ toolRun' = [at |-> "remoteCall", tool |-> toolRun.tool,
                 userId |-> toolRun.userId, destinationId |-> toolRun.destinationId,
                 method |-> RemoteMethod(toolRun.tool),
                 to |-> Target(toolRun.userId, toolRun.destinationId)]
  /\ UNCHANGED <<transports, completionCallbacks, nextSessionId, nextRequest,
                 reqSession, reqTool, pc, toolExecutionComplete, signalled,
                 handler, toolResult, channel>>

\* The remote call returns a response: try branch.
ToolRemoteResolves(response) ==
  /\ toolRun.at = "remoteCall"
  /\ toolRun' = [at |-> "returned", tool |-> toolRun.tool,
                 userId |-> toolRun.userId, destinationId |-> toolRun.destinationId,
                 method |-> toolRun.method, to |-> toolRun.to,
                 ok |-> TRUE, response |-> response, message |-> <<>>,
                 result |-> SuccessResult(response)]
  /\ UNCHANGED <<transports, completionCallbacks, nextSessionId, nextRequest,
                 reqSession, reqTool, pc, toolExecutionComplete, signalled,
                 handler, toolResult, channel>>

\* The remote call throws an error with a message: catch branch.
ToolRemoteRejects(message) ==
  /\ toolRun.at = "remoteCall"
  /\ toolRun' = [at |-> "returned", tool |-> toolRun.tool,
                 userId |-> toolRun.userId, destinationId |-> toolRun.destinationId,
                 method |-> toolRun.method, to |-> toolRun.to,
                 ok |-> FALSE, response |-> <<>>, message |-> message,
                 result |-> ErrorResult(message)]
  /\ UNCHANGED <<transports, completionCallbacks, nextSessionId, nextRequest,
                 reqSession, reqTool, pc, toolExecutionComplete, signalled,
                 handler, toolResult, channel>>

ToolNext ==
  \/ ToolCallsRemote
  \/ \E response \in Responses : ToolRemoteResolves(response)
  \/ \E message \in Texts : ToolRemoteRejects(message)

ToolSpec == ToolInit /\ [][ToolNext]_vars

\* ---- reading a JSON text back ----
ParseFailure == [ok |-> FALSE, val |-> <<>>, next |-> 0]

RECURSIVE ReadString(_, _, _)
\* Reads the characters of a JSON string of t from position i (just after
\* the opening quote) up to its closing quote, undoing the escapes.
ReadString(t, i, acc) ==
  IF i > Len(t) THEN ParseFailure
  ELSE IF t[i] = "\"" THEN [ok |-> TRUE, val |-> acc, next |-> i + 1]
  ELSE IF t[i] = "\\"
    THEN IF i + 1 > Len(t) THEN ParseFailure
         ELSE ReadString(t, i + 2, Append(acc, t[i + 1]))
  ELSE ReadString(t, i + 1, Append(acc, t[i]))

RECURSIVE ReadMembers(_, _, _)
\* Reads "key":"value" members of t from position i up to the closing brace.
ReadMembers(t, i, acc) ==
  IF i > Len(t) \/ t[i] # "\"" THEN ParseFailure
  ELSE
    LET k == ReadString(t, i + 1, <<>>) IN
    IF ~k.ok \/ k.next + 1 > Len(t) \/ t[k.next] # ":" \/ t[k.next + 1] # "\""
      THEN ParseFailure
    ELSE
      LET v == ReadString(t, k.next + 2, <<>>) IN
      IF ~v.ok \/ v.next > Len(t) THEN ParseFailure
      ELSE IF t[v.next] = "}"
        THEN IF v.next = Len(t)
               THEN [ok |-> TRUE, val |-> Append(acc, <<k.val, v.val>>), next |-> v.next + 1]
               ELSE ParseFailure
      ELSE IF t[v.next] = ","
        THEN ReadMembers(t, v.next + 1, Append(acc, <<k.val, v.val>>))
      ELSE ParseFailure

\* JSON.parse of a text holding an object with string members.
JSONParse(t) ==
  IF Len(t) < 2 \/ t[1] # "{" THEN ParseFailure
  ELSE IF Len(t) = 2
    THEN IF t[2] = "}" THEN [ok |-> TRUE, val |-> <<>>, next |-> 3] ELSE ParseFailure
  ELSE ReadMembers(t, 2, <<>>)

\* C14: for each tool and each remote outcome, the remote call went to the
\* supplied userId, or to the default destination when userId is absent; on
\* success the result has no isError and one text item that decodes to
\* exactly the response the remote API returned; on failure it has isError
\* and the one text item "Error: <message>".
C14_ToolResultPayload ==
  toolRun.at = "returned" =>
    /\ toolRun.to = (IF toolRun.userId = Absent
                       THEN toolRun.destinationId ELSE toolRun.userId.value)
    /\ toolRun.method = (IF toolRun.tool = "get_profile" THEN "getProfile" ELSE "pushMessage")
    /\ Len(toolRun.result.content) = 1
    /\ toolRun.result.content[1].type = "text"
    /\ toolRun.ok =>
         /\ ~toolRun.result.isError
         /\ JSONParse(toolRun.result.content[1].text).ok
         /\ JSONParse(toolRun.result.content[1].text).val = toolRun.response
    /\ ~toolRun.ok =>
         /\ toolRun.result.isError
         /\ toolRun.result.content[1].text = ErrorPrefix \o toolRun.message

\* C14 witness: get_profile called with an empty userId (not absent) returned
\* a two-member response one of whose values needs escaping.
C14_Witness ==
  /\ toolRun.at = "returned"
  /\ toolRun.tool = "get_profile"
  /\ toolRun.userId = Given(<<>>)
  /\ toolRun.destinationId = <<"D">>
  /\ toolRun.ok
  /\ Len(toolRun.response) = 2
  /\ toolRun.response[1][2] = <<"\"">>

\* C15: every session identifier with an entry in the completion-callback
\* table has an entry in the transport table.
C15_CallbackOnlyForOpenSession ==
  \A s \in SessionIds : completionCallbacks[s] # NoCallback => s \in transports

\* C15 witness: one session closed under a suspended request (and a dispatch
\* on it failed or not) while another holds a callback.
C15_Witness ==
  \E s, t \in Sessions, r \in Requests :
    /\ Closed(s) /\ reqSession[r] = s /\ pc[r] = "awaitComplete"
    /\ t \in transports /\ completionCallbacks[t] # NoCallback

\* C16: when a POST reaches the hand-off to the transport its resolve is
\* already stored under its session, and the tool handler it starts takes
\* its steps (the completion check among them) only after that hand-off.
C16_RegisteredBeforeDispatch ==
  [][\A r \in Requests :
       /\ (pc[r] = "none" /\ pc'[r] = "handlePostMessage")
            => completionCallbacks'[reqSession'[r]] = r
       /\ handler'[r] # handler[r]
            => pc[r] \in {"handlePostMessage", "awaitComplete", "completed"}]_vars

\* C16 witness: the handler of a request ran its completion check and found
\* the callback its own request had registered.
C16_Witness ==
  \E r \in Requests :
    /\ handler[r] = "returned"
    /\ signalled[r] = 1
    /\ toolExecutionComplete[r] = "resolved"
    /\ completionCallbacks[reqSession[r]] = r

\* The client keeps at most one invocation in flight on each session.
OneInFlightPerSession ==
  \A s \in Sessions :
    Cardinality({r \in Requests : reqSession[r] = s /\ InFlight(r)}) <= 1

\* C17: if at most one invocation is ever in flight per session, a POST
\* whose valid tool invocation is awaiting its remote call is eventually
\* released by the one completion signal of its own tool handler, unless its
\* channel closes.
C17_DisciplinedClientIsReleased ==
  \A r \in Requests :
    ([]OneInFlightPerSession)
      => ((reqTool[r] = ValidInvocation /\ pc[r] = "awaitComplete"
             /\ handler[r] = "remoteCall")
            ~> (\/ reqSession[r] \notin transports
                \/ pc[r] = "completed" /\ ToolFinished(r) /\ signalled[r] = 1))

\* C17 witness: with one invocation at a time, a POST whose remote call
\* failed was released on an open session after its own handler signalled.
C17_Witness ==
  \E r \in Requests :
    /\ OneInFlightPerSession
    /\ reqSession[r] \in transports
    /\ pc[r] = "completed"
    /\ toolResult[r] = "isError"
    /\ signalled[r] = 1
    /\ handler[r] = "sent"

\* C18: a tool handler whose remote call returns after its session's channel
\* has closed fires no completion signal and changes neither table.
C18_LateReturnAfterClose ==
  [][\A r \in Requests :
       (handler[r] = "remoteCall" /\ handler'[r] = "returned"
          /\ reqSession[r] \notin transports)
         => /\ signalled' = signalled
            /\ toolExecutionComplete' = toolExecutionComplete
            /\ transports' = transports
            /\ completionCallbacks' = completionCallbacks]_vars

\* C18 witness: the only request of a closed session has a finished handler
\* that signalled nobody, so its remote call returned after the close.
C18_Witness ==
  \E r \in Requests :
    /\ ToolFinished(r)
    /\ Closed(reqSession[r])
    /\ signalled[r] = 0 /\ toolExecutionComplete[r] = "pending"
    /\ \A q \in Requests \ {r} : reqSession[q] # reqSession[r]
====
